---- MODULE Spec2Model ----
(***************************************************************************)
(* Model of the conversational query router (myFirstAi.py) and of its SQL  *)
(* handler (sql_handler.py).                                               *)
(*                                                                         *)
(* Texts are modelled as short sequences of tokens.  A completion of the   *)
(* classification prompt is a sequence over RouteTokens, a completion of   *)
(* the validation prompt is a sequence over JsonTokens, an input line is a *)
(* sequence over LineTokens.  The token " " is whitespace.                 *)
(*                                                                         *)
(* JSON texts: "{" and "}" are braces, "E" is the member                   *)
(* "potential_enhancements": [...] with a non-empty list, "S" is a member  *)
(* "strengths": [...] with a non-empty list, "n" is a non-zero number      *)
(* literal, "w" is a word of prose.  The JSON texts are "n" alone and      *)
(* "{" followed by any number of members followed by "}".                  *)
(***************************************************************************)
EXTENDS Integers, Sequences, FiniteSets, TLC

\* ---------------------------------------------------------------- bounds
MaxRouteLen == 3
MaxRespLen == 4
MaxLineLen == 2
MaxRows == 2
MaxQueryLen == 3
MaxQuestions == 2
MaxVariations == 2
MaxFilters == 2
MaxAnalysisLen == 3
MaxDatasets == 2

\* ---------------------------------------------------------------- texts
RouteTokens == {"SQL", "API", "GENERAL", "sql", "LLM", " "}
JsonTokens == {"{", "}", "E", "S", "n", "w"}
LineTokens == {"exit", "Exit", " ", "q"}

SeqsUpTo(S, n) == UNION {[1..k -> S] : k \in 0..n}

RouteResponses == SeqsUpTo(RouteTokens, MaxRouteLen)
JsonResponses == SeqsUpTo(JsonTokens, MaxRespLen)
InputLines == SeqsUpTo(LineTokens, MaxLineLen)

\* the words of a query or of a company name; a text is its words joined by blanks
QueryWords == {"apple", "Apple", "microsoft", "Microsoft", "msft", "MSFT",
               "google", "amazon", "tesla", "price"}
Queries == SeqsUpTo(QueryWords, MaxQueryLen)

\* str.strip(): drop the leading and the trailing whitespace
RECURSIVE LStrip(_)
LStrip(s) == IF s # << >> /\ Head(s) = " " THEN LStrip(Tail(s)) ELSE s

RECURSIVE RStrip(_)
RStrip(s) ==
    IF s # << >> /\ s[Len(s)] = " " THEN RStrip(SubSeq(s, 1, Len(s) - 1)) ELSE s

Strip(s) == RStrip(LStrip(s))

\* str.lower() on the tokens of an input line
LowerTok(t) ==
    IF t = "Exit" THEN "exit"
    ELSE IF t = "Y" THEN "y"
    ELSE IF t = "Apple" THEN "apple"
    ELSE IF t = "Microsoft" THEN "microsoft"
    ELSE IF t = "MSFT" THEN "msft"
    ELSE t
Lower(s) == [i \in 1..Len(s) |-> LowerTok(s[i])]

\* str.find / str.rfind: 0-based index of the first / last occurrence, -1 if none
Find(s, t) ==
    IF \E i \in 1..Len(s) : s[i] = t
    THEN (CHOOSE i \in 1..Len(s) : s[i] = t /\ \A j \in 1..(i - 1) : s[j] # t) - 1
    ELSE -1

RFind(s, t) ==
    IF \E i \in 1..Len(s) : s[i] = t
    THEN (CHOOSE i \in 1..Len(s) : s[i] = t /\ \A j \in (i + 1)..Len(s) : s[j] # t) - 1
    ELSE -1

\* response[a:b] with 0 <= a < b
Slice(s, a, b) == SubSeq(s, a + 1, IF b > Len(s) THEN Len(s) ELSE b)

\* ---------------------------------------------------------------- JSON values
\* None, the result of json.loads on "n", and the result of json.loads on an object
NoneVal == [kind |-> "none", members |-> 0, enh |-> FALSE]
NumVal == [kind |-> "num", members |-> 0, enh |-> FALSE]
ObjVal(m, e) == [kind |-> "obj", members |-> m, enh |-> e]
DecodeError == [kind |-> "JSONDecodeError", members |-> 0, enh |-> FALSE]

IsObjectText(s) ==
    /\ Len(s) >= 2
    /\ s[1] = "{"
    /\ s[Len(s)] = "}"
    /\ \A i \in 2..(Len(s) - 1) : s[i] \in {"E", "S"}

\* json.loads: the decoded value, or DecodeError when the text is not JSON
json_loads(s) ==
    IF s = <<"n">> THEN NumVal
    ELSE IF IsObjectText(s)
         THEN ObjVal(Len(s) - 2, \E i \in 2..(Len(s) - 1) : s[i] = "E")
         ELSE DecodeError

\* Python truth value of a decoded value: None and {} are false
Truthy(v) == v.kind = "num" \/ (v.kind = "obj" /\ v.members > 0)

\* ---------------------------------------------------------------- route_query
\* a lookup that ignores the case of the token
QueryTypeAnyCase(result) ==
    IF result \in {<<"SQL">>, <<"API">>, <<"GENERAL">>} THEN result[1]
    ELSE IF result = <<"sql">> THEN "SQL"
    ELSE "INVALID"

\* QueryType(result): the Enum looked up by value; "INVALID" stands for the ValueError
QueryType(result) ==
    IF result \in {<<"SQL">>, <<"API">>, <<"GENERAL">>} THEN result[1] ELSE "INVALID"

\* a dispatch whose second test is wrong
DispatchWrongBranch(qt) ==
    IF qt = "SQL" THEN "handle_sql_query"
    ELSE IF qt = "GENERAL" THEN "handle_api_query"
    ELSE "general_llm"

\* process_query: the handler started for a QueryType
Dispatch(qt) ==
    IF qt = "SQL" THEN "handle_sql_query"
    ELSE IF qt = "API" THEN "handle_api_query"
    ELSE "general_llm"

\* ---------------------------------------------------------------- validate_sql_query
JsonStart(r) == Find(r, "{")
\* an end of the extraction taken at the first closing brace
JsonEndFirst(r) == Find(r, "}") + 1

JsonEnd(r) == RFind(r, "}") + 1

\* what is printed when the extraction between the braces does not parse
ParseFailurePrints == <<"warn_parse">>
\* what is printed when the if-condition of the extraction is false: the inner
\* try block ends without a return and the function falls off its end
NoBracePrints == << >>
\* an outer except clause that prints nothing
CallFailurePrintsNothing == << >>

\* what is printed by the outer except clause
CallFailurePrints == <<"warn_validation_error">>

\* the value returned by the outer except clause
CallFailureValue == NoneVal

\* failed: the completion call raised.  Result: the returned value and what was printed.
validate_sql_query(failed, response) ==
    IF failed
    THEN [val |-> CallFailureValue, printed |-> CallFailurePrints]
    ELSE LET direct == json_loads(response) IN
         IF direct # DecodeError
         THEN [val |-> direct, printed |-> << >>]
         ELSE LET json_start == JsonStart(response)
                  json_end == JsonEnd(response) IN
              IF json_start >= 0 /\ json_end > json_start
              THEN LET inner == json_loads(Slice(response, json_start, json_end)) IN
                   IF inner # DecodeError
                   THEN [val |-> inner, printed |-> << >>]
                   ELSE [val |-> NoneVal, printed |-> ParseFailurePrints]
              ELSE [val |-> NoneVal, printed |-> NoBracePrints]

\* display_sql_validation: "raise" stands for the AttributeError of validation.get
\* on a value that is not a dict
display_sql_validation(v) ==
    IF ~Truthy(v) THEN << >>
    ELSE IF v.kind # "obj" THEN <<"raise">>
    ELSE <<"suggestions">>

\* a test that prompts whenever there is a validation
NeedsConfirmAnyValidation(v) == Truthy(v)

\* handle_sql_query, lines 392-394: is the proceed prompt shown
NeedsConfirm(v) == Truthy(v) /\ v.kind = "obj" /\ v.enh

\* handle_sql_query, line 396: does the answer let the query run
Proceeds(answer) == Lower(answer) = <<"y">>

\* a handler whose cancel branch has no return
handle_sql_query_NoReturn(step) ==
    IF step = "generate" THEN "validate"
    ELSE IF step = "validate" THEN "display"
    ELSE IF step = "proceed" THEN "execute"
    ELSE IF step = "cancel" THEN "execute"
    ELSE IF step = "execute" THEN "print"
    ELSE "read"

\* a handler that executes the statement right after generating it
handle_sql_query_NoValidation(step) ==
    IF step = "generate" THEN "execute"
    ELSE IF step = "validate" THEN "display"
    ELSE IF step = "proceed" THEN "execute"
    ELSE IF step = "cancel" THEN "read"
    ELSE IF step = "execute" THEN "print"
    ELSE "read"

\* handle_sql_query: the program point reached after a step of the handler;
\* "read" is the return to the loop of chat
handle_sql_query(step) ==
    IF step = "generate" THEN "validate"
    ELSE IF step = "validate" THEN "display"
    ELSE IF step = "proceed" THEN "execute"
    ELSE IF step = "cancel" THEN "read"
    ELSE IF step = "execute" THEN "print"
    ELSE "read"

\* ---------------------------------------------------------------- execute_sql_query
\* ---------------------------------------------------------------- generate_sql_query
\* completions of the generation prompt: "SELECT" is a query, "UPDATE" a
\* statement without a result set, "bad" a word the store does not know, "<fence>"
\* a markdown fence (three backticks), " " white space
Completions ==
    {<<"SELECT">>, <<" ", "SELECT", " ">>, <<"<fence>", "SELECT", "<fence>">>,
     <<" ", "<fence>", "SELECT", "<fence>">>, <<"SELECT", " ", "bad">>, <<"UPDATE">>, <<"UPDATE", " ">>}

\* a generation that takes the fences off
generate_sql_query_Unfenced(completion) ==
    Strip(SelectSeq(Strip(completion), LAMBDA t : t # "<fence>"))

\* generate_sql_query, lines 49-52: the completion, stripped
generate_sql_query(completion) == Strip(completion)

Statements == {generate_sql_query(c) : c \in Completions}

NoStatement == <<"NONE">>

\* what the store makes of a statement: a leading fence opens a quoted name the
\* parser rejects, as it rejects an unknown word
StatementKind(stmt) ==
    IF \E i \in DOMAIN stmt : stmt[i] = "<fence>" THEN "malformed"
    ELSE IF stmt = <<"SELECT">> THEN "select"
    ELSE IF stmt = <<"UPDATE">> THEN "update"
    ELSE "malformed"

\* the values of a row as the store returns them; the last one is a text with
\* a line break in it.  "\n" is the line break, "|" the separator " | ".
Values == {<<"a">>, <<"b">>, <<"a", "\n", "b">>}
ColumnLists == {<<"c1">>, <<"c1", "c2">>}
RowsOf(columns) == SeqsUpTo([DOMAIN columns -> Values], MaxRows)

\* what the store does with a statement: columns and rows, an sqlite3.Error, or
\* a statement without a result set (cursor.description is None)
StoreOutcomes(stmt) ==
    IF StatementKind(stmt) = "select"
    THEN UNION {{[kind |-> "rows", n |-> Len(r), columns |-> c, rows |-> r] :
                   r \in RowsOf(c)} : c \in ColumnLists}
    ELSE IF StatementKind(stmt) = "update"
    THEN {[kind |-> "no_result_set", n |-> 0, columns |-> << >>, rows |-> << >>]}
    ELSE {[kind |-> "sqlite3.Error", n |-> 0, columns |-> << >>, rows |-> << >>]}

NoCursor == [kind |-> "none", n |-> 0, columns |-> << >>, rows |-> << >>]
NoResult == [kind |-> "none", n |-> 0, text |-> << >>]

\* sep.join(texts)
RECURSIVE Join(_, _)
Join(texts, sep) ==
    IF texts = << >> THEN << >>
    ELSE IF Len(texts) = 1 THEN texts[1]
    ELSE (texts[1] \o <<sep>>) \o Join(Tail(texts), sep)

\* the lines of the table, one after the other: each row followed by a line break
RECURSIVE RowLines(_)
RowLines(rows) ==
    IF rows = << >> THEN << >>
    ELSE (Join(rows[1], "|") \o <<"\n">>) \o RowLines(Tail(rows))

HeaderOf(columns) == Join([i \in DOMAIN columns |-> <<columns[i]>>], "|")

\* execute_sql_query, lines 67-70: "---" stands for the line of dashes
RenderTable(o) ==
    ((((<<"\n", "Results:", "\n">> \o HeaderOf(o.columns)) \o <<"\n">>) \o <<"---">>)
       \o <<"\n">>) \o RowLines(o.rows)

\* the text returned for a store outcome; kind "TypeError" stands for the
\* exception of iterating cursor.description when it is None
execute_sql_query(o) ==
    IF o.kind = "sqlite3.Error"
    THEN [kind |-> "error_text", n |-> 0, text |-> <<"Error executing SQL query:", "message">>]
    ELSE IF o.kind = "no_result_set" THEN [kind |-> "TypeError", n |-> 0, text |-> << >>]
    ELSE IF o.n = 0 THEN [kind |-> "no_results", n |-> 0, text |-> <<"No results found.">>]
    ELSE [kind |-> "table", n |-> o.n, text |-> RenderTable(o)]

\* ---------------------------------------------------------------- api_handler
\* key in text: some word of the text is the key (no word of QueryWords
\* contains another one as a proper substring)
Contains(text, key) == \E i \in DOMAIN text : text[i] = key

\* company_mapping, in the order of its entries
company_mapping ==
    <<[key |-> "apple", value |-> "Apple Inc."],
      [key |-> "microsoft", value |-> "Microsoft Corp"]>>

\* a normalization that compares without lowering the name
normalize_company_name_CaseSensitive(name) ==
    LET cleaned_name == Strip(name)
        hits == {k \in DOMAIN company_mapping : Contains(cleaned_name, company_mapping[k].key)}
    IN  IF hits # {}
        THEN <<company_mapping[CHOOSE k \in hits : \A j \in hits : k <= j].value>>
        ELSE IF Contains(cleaned_name, "microsoft") \/ Contains(cleaned_name, "msft")
        THEN <<"Microsoft Corp">>
        ELSE IF Contains(cleaned_name, "apple") THEN <<"Apple Inc.">>
        ELSE name

\* normalize_company_name: the first mapping entry whose key is in the lowered
\* name, then the two fallback tests, then the name as given
normalize_company_name(name) ==
    LET cleaned_name == Strip(Lower(name))
        hits == {k \in DOMAIN company_mapping : Contains(cleaned_name, company_mapping[k].key)}
    IN  IF hits # {}
        THEN <<company_mapping[CHOOSE k \in hits : \A j \in hits : k <= j].value>>
        ELSE IF Contains(cleaned_name, "microsoft") \/ Contains(cleaned_name, "msft")
        THEN <<"Microsoft Corp">>
        ELSE IF Contains(cleaned_name, "apple") THEN <<"Apple Inc.">>
        ELSE name

common_companies == <<"apple", "microsoft", "google", "amazon", "tesla">>

\* an extraction that takes the known company that comes first in the query
extract_company_name_FirstInText(query) ==
    LET lowered == Lower(query)
        at == {i \in DOMAIN lowered :
                 \E k \in DOMAIN common_companies : lowered[i] = common_companies[k]}
    IN  IF at # {}
        THEN normalize_company_name(<<lowered[CHOOSE i \in at : \A j \in at : i <= j]>>)
        ELSE <<"NONE">>

\* extract_company_name: the first name of common_companies that is in the
\* lowered query, normalized; the sentinel "NONE" when there is none
extract_company_name(query) ==
    LET hits == {k \in DOMAIN common_companies : Contains(Lower(query), common_companies[k])}
    IN  IF hits # {}
        THEN normalize_company_name(<<common_companies[CHOOSE k \in hits : \A j \in hits : k <= j]>>)
        ELSE <<"NONE">>

NoData == [shape |-> "none", company_name |-> << >>, records |-> 0]

\* call_financial_api: one record that echoes the name, or the list of all companies;
\* the empty name stands for the call without argument
call_financial_api(name) ==
    IF name # << >> /\ name # <<"NONE">>
    THEN [shape |-> "dict", company_name |-> name, records |-> 1]
    ELSE [shape |-> "list", company_name |-> << >>, records |-> 2]

NoText == [template |-> "none", title |-> << >>, sections |-> << >>]

\* format_api_response: the single-company template or the summary template
format_api_response(data) ==
    IF data.shape = "dict"
    THEN [template |-> "single",
          title |-> (<<"Financial Data for">> \o data.company_name) \o <<":">>,
          sections |-> <<"Financial Metrics:", "Stock Data:", "Historical Performance:",
                         "Last Updated:">>]
    ELSE IF data.shape = "list"
    THEN [template |-> "summary",
          title |-> <<"Financial Data Summary:">>,
          sections |-> <<"Apple Inc.:", "Microsoft Corp:">>]
    ELSE NoText

\* str.upper() on the words a company name can be made of
UpperTok(t) ==
    IF t \in {"apple", "Apple"} THEN "APPLE"
    ELSE IF t \in {"microsoft", "Microsoft"} THEN "MICROSOFT"
    ELSE IF t \in {"msft", "MSFT"} THEN "MSFT"
    ELSE IF t = "google" THEN "GOOGLE"
    ELSE IF t = "amazon" THEN "AMAZON"
    ELSE IF t = "tesla" THEN "TESLA"
    ELSE IF t = "price" THEN "PRICE"
    ELSE IF t = "Apple Inc." THEN "APPLE INC."
    ELSE IF t = "Microsoft Corp" THEN "MICROSOFT CORP"
    ELSE t
Upper(name) == [i \in DOMAIN name |-> UpperTok(name[i])]

\* a handler whose test of the sentinel is inverted
handle_api_query_Inverted(name) ==
    IF Upper(name) # <<"NONE">> THEN call_financial_api(<< >>) ELSE call_financial_api(name)

\* handle_api_query, lines 150-155: which call is made for the extracted name
handle_api_query(name) ==
    IF Upper(name) = <<"NONE">> THEN call_financial_api(<< >>) ELSE call_financial_api(name)

\* ---------------------------------------------------------------- analyze_sql_request
\* A completion of the analysis prompt: "M" is the four members
\* clarifying_questions, query_variations, considerations, suggested_filters,
\* "P" is the member clarifying_questions alone, "n" a number literal, "w" a
\* word of prose.  The lists of the members are given beside the text.
AnalysisTokens == {"{", "}", "M", "P", "n", "w"}
AnalysisResponses == SeqsUpTo(AnalysisTokens, MaxAnalysisLen)

FourFields == {"clarifying_questions", "query_variations", "considerations",
               "suggested_filters"}

\* the lengths of the four lists of an analysis
ListLengths ==
    [clarifying_questions : 0..MaxQuestions, query_variations : 0..MaxVariations,
     considerations : 0..1, suggested_filters : 0..MaxFilters]

NoLengths ==
    [clarifying_questions |-> 0, query_variations |-> 0, considerations |-> 0,
     suggested_filters |-> 0]

NoAnalysis == [kind |-> "none", has |-> {}, len |-> NoLengths]
AnalysisDecodeError == [kind |-> "JSONDecodeError", has |-> {}, len |-> NoLengths]

IsAnalysisObjectText(s) ==
    /\ Len(s) >= 2
    /\ s[1] = "{"
    /\ s[Len(s)] = "}"
    /\ \A i \in 2..(Len(s) - 1) : s[i] \in {"M", "P"}

\* the keys of the object a text decodes to
KeysOf(s) ==
    IF \E i \in DOMAIN s : s[i] = "M" THEN FourFields
    ELSE IF \E i \in DOMAIN s : s[i] = "P" THEN {"clarifying_questions"}
    ELSE {}

\* the lists of the keys that are there; the others have no length
Restrict(lengths, keys) ==
    [k \in FourFields |-> IF k \in keys THEN lengths[k] ELSE 0]

\* json.loads of line 160: the decoded value, whatever it is, or the decode error
analysis_loads(s, lengths) ==
    IF s = <<"n">> THEN [kind |-> "num", has |-> {}, len |-> NoLengths]
    ELSE IF IsAnalysisObjectText(s)
         THEN [kind |-> "obj", has |-> KeysOf(s), len |-> Restrict(lengths, KeysOf(s))]
         ELSE AnalysisDecodeError

\* ---------------------------------------------------------------- get_user_preferences
\* what can be typed at the prompts
AnswerTexts == {<< >>, <<" ">>, <<" ", "a">>}
ChoiceTexts == {<< >>, <<"1">>, <<"2">>, <<" ", "1", " ">>, <<"3">>, <<"1", "2">>, <<"0">>,
                <<"x">>, <<"²">>}
FilterTexts == {<< >>, <<"y">>, <<"Y">>, <<"n">>, <<" ", "y">>}

\* str.isdigit(): not empty and nothing but digit characters; "²" is one
isdigit(text) == text # << >> /\ \A i \in DOMAIN text : text[i] \in {"0", "1", "2", "3", "²"}

\* int() raises ValueError on a digit character that is no decimal digit
IntRaises(text) == \E i \in DOMAIN text : text[i] \notin {"0", "1", "2", "3"}

DigitValue(t) == IF t = "1" THEN 1 ELSE IF t = "2" THEN 2 ELSE IF t = "3" THEN 3 ELSE 0

RECURSIVE int(_)
int(text) ==
    IF text = << >> THEN 0
    ELSE 10 * int(SubSeq(text, 1, Len(text) - 1)) + DigitValue(text[Len(text)])

\* a range test that starts at zero
InRangeFromZero(k, n) == 0 <= k /\ k <= n

\* line 188: 1 <= int(choice) <= len(analysis["query_variations"])
InRange(k, n) == 1 <= k /\ k <= n

Entry(key, i, text, num) == [key |-> key, i |-> i, text |-> text, num |-> num]

NoInputs == [answers |-> << >>, choice |-> << >>, applies |-> << >>, final |-> << >>,
             modified |-> << >>]

\* get_user_preferences: the exception it raises ("none" if it returns) and
\* the preferences it returns.  analysis[key] raises TypeError on a number and
\* KeyError on a missing key.
get_user_preferences(a, inp) ==
    LET n == a.len
        choice == Strip(inp.choice)
        answered == {Entry("answer", i, Strip(inp.answers[i]), 0) :
                       i \in {j \in 1..n.clarifying_questions : Strip(inp.answers[j]) # << >>}}
        selected == IF n.query_variations > 0 /\ isdigit(choice)
                       /\ InRange(int(choice), n.query_variations)
                    THEN {Entry("selected_variation", 0, << >>, int(choice))}
                    ELSE {}
        applied == {Entry("filter", i, << >>, 1) :
                      i \in {j \in 1..n.suggested_filters : Lower(inp.applies[j]) = <<"y">>}}
    IN  IF a.kind # "obj" THEN [raised |-> "TypeError", preferences |-> {}]
        ELSE IF "clarifying_questions" \notin a.has
        THEN [raised |-> "KeyError", preferences |-> {}]
        ELSE IF "query_variations" \notin a.has
        THEN [raised |-> "KeyError", preferences |-> {}]
        ELSE IF n.query_variations > 0 /\ isdigit(choice) /\ IntRaises(choice)
        THEN [raised |-> "ValueError", preferences |-> {}]
        ELSE IF "considerations" \notin a.has \/ "suggested_filters" \notin a.has
        THEN [raised |-> "KeyError", preferences |-> {}]
        ELSE [raised |-> "none", preferences |-> (answered \cup selected) \cup applied]

\* the lines typed at the prompts of get_user_preferences for an analysis: one
\* answer per question, one choice if there are variations, one answer per
\* filter; nothing is typed at a prompt that is not shown
InputsFor(a) ==
    {inp \in [answers : [1..a.len.clarifying_questions -> AnswerTexts],
              choice : IF a.len.query_variations > 0 THEN ChoiceTexts ELSE {<< >>},
              applies : [1..a.len.suggested_filters -> FilterTexts],
              final : {<< >>}, modified : {<< >>}] :
       get_user_preferences(a, inp).raised # "none" =>
         \A i \in DOMAIN inp.applies : inp.applies[i] = << >>}

\* ---------------------------------------------------------------- generate_improved_sql
\* json.dumps of an analysis: the text of the object and the lists of its members
json_dumps(a) ==
    [text |-> IF a.kind = "num" THEN <<"n">>
              ELSE IF a.has = FourFields THEN <<"{", "M", "}">>
              ELSE IF a.has = {} THEN <<"{", "}">>
              ELSE <<"{", "P", "}">>,
     len |-> a.len]

\* the entries of one key in the order of their numbers
RECURSIVE InOrder(_, _, _)
InOrder(p, key, i) ==
    IF \A e \in p : e.key # key \/ e.i < i THEN << >>
    ELSE LET here == {e \in p : e.key = key /\ e.i = i} IN
         (IF here = {} THEN << >> ELSE <<CHOOSE e \in here : TRUE>>) \o InOrder(p, key, i + 1)

\* json.dumps of the preferences: the entries in the order get_user_preferences
\* inserted them, answers, then the selection, then the filters
json_dumps_preferences(p) ==
    (InOrder(p, "answer", 1) \o InOrder(p, "selected_variation", 0)) \o InOrder(p, "filter", 1)

\* the text load_llm_prompt_data returns
llm_data == <<"metadata">>

NoCalls == << >>

\* the completion calls of generate_sql_query and of the improvement chain:
\* what the prompt embeds and what the model answered
BasicCall(completion) ==
    [name |-> "generate_sql_query", schema |-> llm_data, llm_data |-> << >>,
     sql_query |-> << >>, analysis |-> json_dumps(NoAnalysis), preferences |-> << >>,
     completion |-> completion]

ImprovementCall(basic_sql, a, p, completion) ==
    [name |-> "improvement", schema |-> llm_data, llm_data |-> llm_data,
     sql_query |-> basic_sql, analysis |-> json_dumps(a),
     preferences |-> json_dumps_preferences(p), completion |-> completion]

\* a refinement that answers with the baseline
generate_improved_sql_Baseline(basic, improved, a, p) ==
    LET basic_sql == generate_sql_query(basic) IN
    [calls |-> <<BasicCall(basic), ImprovementCall(basic_sql, a, p, improved)>>,
     result |-> basic_sql]

\* generate_improved_sql, lines 208-252, for the completions of its two calls
generate_improved_sql(basic, improved, a, p) ==
    LET basic_sql == generate_sql_query(basic) IN
    [calls |-> <<BasicCall(basic), ImprovementCall(basic_sql, a, p, improved)>>,
     result |-> Strip(improved)]

\* ---------------------------------------------------------------- init_database
\* the contents the tables can be filled with; 0 is a store without tables
Datasets == 1..MaxDatasets
NoDatabase == 0

\* init_database drops the tables, creates them and fills them with random rows
init_database(s) == Datasets

\* ---------------------------------------------------------------- process_sql_request
\* what can be typed at the prompt of line 363 and at the prompt of line 366
FinalTexts == {<< >>, <<"1">>, <<"2">>, <<"3">>, <<"x">>, <<" ", "3">>}
ModifiedTexts == {<< >>, <<" ">>, <<"SELECT", " ">>}

\* the value None that process_sql_request returns when the user cancels
NoneReturned == <<"None">>

\* process_sql_request, lines 360-378: what is returned and printed for the
\* lines typed at the final prompt; "modified" is the statement typed at line 366
process_sql_request(v, sql, final, modified) ==
    IF NeedsConfirm(v)
    THEN IF final = <<"2">>
         THEN [returned |-> IF Strip(modified) # << >> THEN modified ELSE sql,
               printed |-> << >>]
         ELSE IF final = <<"3">>
         THEN [returned |-> NoneReturned, printed |-> <<"cancel_notice">>]
         ELSE [returned |-> sql, printed |-> << >>]
    ELSE IF Lower(final) # <<"y">>
         THEN [returned |-> NoneReturned, printed |-> <<"cancel_notice">>]
         ELSE [returned |-> sql, printed |-> << >>]

\* ---------------------------------------------------------------- chat
\* the loop without its try/except: an exception ends the process
CatchNothing(e) == "crashed"

\* the except clause of the loop: where control goes when a step raises
Catch(e) == "except"

ConfirmTokens == {"y", "Y", "n", " "}
ConfirmAnswers == SeqsUpTo(ConfirmTokens, MaxLineLen)

VARIABLES pc, query_type, route_resp, sql_query, response, validation,
          results, err, trace, cursor,
          query_words, company_name, api_data, formatted_response,
          analysis, preferences, inputs, returned,
          calls, store, line_read

apiVars == <<query_words, company_name, api_data, formatted_response>>

psrVars == <<analysis, preferences, inputs, returned>>

vars == <<pc, query_type, route_resp, sql_query, response, validation,
          results, err, trace, cursor, apiVars, psrVars, calls, store, line_read>>

NoLine == << >>

\* the values of the variables of process_sql_request outside that function
PsrIdle(a, p, i, r) ==
    /\ a = NoAnalysis
    /\ p = {}
    /\ i = NoInputs
    /\ r = NoStatement

\* the values of the variables of the API handler outside the handler
ApiIdle(q, c, d, f) ==
    /\ q = << >>
    /\ c = << >>
    /\ d = NoData
    /\ f = NoText

Init ==
    /\ pc = "read"
    /\ query_type = "NONE"
    /\ route_resp = << >>
    /\ sql_query = NoStatement
    /\ response = << >>
    /\ validation = NoneVal
    /\ results = NoResult
    /\ err = "none"
    /\ trace = << >>
    /\ cursor = NoCursor
    /\ ApiIdle(query_words, company_name, api_data, formatted_response)
    /\ PsrIdle(analysis, preferences, inputs, returned)
    /\ calls = NoCalls
    /\ store \in Datasets \cup {NoDatabase}
    /\ line_read = NoLine

\* a step raises e after having logged log
Raise(e, log) ==
    /\ pc' = Catch(e)
    /\ err' = e
    /\ trace' = Append(log, "raised")

\* an exit test that knows one spelling only
IsExitCaseSensitive(user_query) == user_query = <<"exit">>

\* chat, line 98: user_query.lower() == 'exit'
IsExit(user_query) == Lower(user_query) = <<"exit">>

\* chat, lines 93-105: read a line; exit, empty line, end of input, or a query
ReadInput ==
    /\ pc = "read"
    /\ ApiIdle(query_words', company_name', api_data', formatted_response')
    /\ UNCHANGED <<psrVars, calls, store>>
    /\ query_type' = "NONE"
    /\ route_resp' = << >>
    /\ sql_query' = NoStatement
    /\ response' = << >>
    /\ validation' = NoneVal
    /\ results' = NoResult
    /\ cursor' = NoCursor
    /\ \/ /\ Raise("EOFError", <<"input_raised">>)
          /\ line_read' = NoLine
       \/ /\ err' = "none"
          /\ \E line \in InputLines :
               LET user_query == Strip(line) IN
               /\ line_read' = line
               /\ IF IsExit(user_query)
                  THEN pc' = "exited" /\ trace' = <<"goodbye">>
                  ELSE IF user_query = << >>
                  THEN pc' = "read" /\ trace' = <<"please_enter">>
                  ELSE pc' = "route" /\ trace' = <<"query">>

\* route_query: one completion call, strip, QueryType(result); the words of the
\* line are not followed further, a completion is drawn for any query
RouteQuery ==
    /\ pc = "route"
    /\ UNCHANGED <<apiVars, cursor, psrVars, calls, store>>
    /\ line_read' = NoLine
    /\ UNCHANGED <<sql_query, response, validation, results>>
    /\ \/ /\ Raise("CompletionError", Append(trace, "classify_call_failed"))
          /\ UNCHANGED <<query_type, route_resp>>
       \/ \E r \in RouteResponses :
            LET qt == QueryType(Strip(r)) IN
            /\ route_resp' = r
            /\ IF qt = "INVALID"
               THEN /\ Raise("ValueError", Append(trace, "classify"))
                    /\ UNCHANGED query_type
               ELSE /\ query_type' = qt
                    /\ pc' = "dispatch"
                    /\ err' = "none"
                    /\ trace' = trace \o <<"classify", "route_chosen">>

\* process_query: start the handler of the route
ProcessQuery ==
    /\ pc = "dispatch"
    /\ UNCHANGED <<apiVars, cursor, psrVars, calls, store, line_read>>
    /\ pc' = Dispatch(query_type)
    /\ trace' = Append(trace, Dispatch(query_type))
    /\ route_resp' = << >>
    /\ UNCHANGED <<query_type, sql_query, response, validation, results, err>>

\* handle_sql_query, line 384: generate_sql_query
GenerateSql ==
    /\ pc = "handle_sql_query"
    /\ UNCHANGED <<apiVars, cursor, psrVars, calls, store, line_read>>
    /\ UNCHANGED <<query_type, route_resp, validation, results>>
    /\ \/ /\ Raise("CompletionError", Append(trace, "generate_call_failed"))
          /\ UNCHANGED <<sql_query, response>>
       \/ /\ \E c \in Completions :
               /\ response' = c
               /\ sql_query' = generate_sql_query(c)
          /\ pc' = handle_sql_query("generate")
          /\ err' = "none"
          /\ trace' = Append(trace, "generate")

\* handle_sql_query, line 388: validate_sql_query
ValidateSql ==
    /\ pc = "validate"
    /\ UNCHANGED <<apiVars, cursor, psrVars, calls, store, line_read>>
    /\ UNCHANGED <<query_type, route_resp, sql_query, results, err>>
    /\ \/ LET v == validate_sql_query(TRUE, << >>) IN
          /\ response' = << >>
          /\ validation' = v.val
          /\ trace' = (trace \o <<"validate_call_failed">>) \o v.printed
       \/ \E r \in JsonResponses :
            LET v == validate_sql_query(FALSE, r) IN
            /\ response' = r
            /\ validation' = v.val
            /\ trace' = (trace \o <<"validate">>) \o v.printed
    /\ pc' = handle_sql_query("validate")

\* handle_sql_query, lines 389-394: display_sql_validation, then the test
\* that decides whether the proceed prompt is shown
DisplayValidation ==
    /\ pc = "display"
    /\ UNCHANGED <<apiVars, cursor, psrVars, calls, store, line_read>>
    /\ response' = << >>
    /\ UNCHANGED <<query_type, route_resp, sql_query, validation, results>>
    /\ LET shown == display_sql_validation(validation) IN
       IF shown = <<"raise">>
       THEN Raise("AttributeError", Append(trace, "display_raised"))
       ELSE /\ trace' = trace \o shown
            /\ err' = "none"
            /\ pc' = IF NeedsConfirm(validation) THEN "confirm" ELSE "execute"

\* handle_sql_query, lines 395-398: the proceed prompt
Confirm ==
    /\ pc = "confirm"
    /\ UNCHANGED <<apiVars, cursor, psrVars, calls, store, line_read>>
    /\ UNCHANGED <<query_type, route_resp, sql_query, response, validation, results, err>>
    /\ \E answer \in ConfirmAnswers :
         IF Proceeds(answer)
         THEN /\ pc' = handle_sql_query("proceed")
              /\ trace' = trace \o <<"confirm", "proceed">>
         ELSE /\ pc' = handle_sql_query("cancel")
              /\ trace' = trace \o <<"confirm", "cancel_notice">>

\* handle_sql_query, line 400: execute_sql_query
ExecuteSql ==
    /\ pc = "execute"
    /\ UNCHANGED <<apiVars, psrVars, calls, line_read>>
    /\ UNCHANGED <<query_type, route_resp, sql_query, response, validation>>
    /\ store' \in init_database(store)
    /\ \E o \in StoreOutcomes(sql_query) :
         LET text == execute_sql_query(o) IN
         /\ cursor' = o
         /\ IF text.kind = "TypeError"
            THEN /\ Raise("TypeError", Append(trace, "execute"))
                 /\ UNCHANGED results
            ELSE /\ results' = text
                 /\ pc' = handle_sql_query("execute")
                 /\ err' = "none"
                 /\ trace' = Append(trace, "execute")

\* handle_sql_query, line 401: print(results)
PrintResults ==
    /\ pc = "print"
    /\ UNCHANGED <<apiVars, cursor, psrVars, calls, store, line_read>>
    /\ pc' = handle_sql_query("print")
    /\ trace' = Append(trace, "print_results")
    /\ UNCHANGED <<query_type, route_resp, sql_query, response, validation, results, err>>

\* process_query, line 75: handle_api_query
\* the words of the query are read by this handler only, so they are chosen here
ApiQuery ==
    /\ pc = "handle_api_query"
    /\ pc' = "read"
    /\ trace' = Append(trace, "api_response")
    /\ UNCHANGED <<cursor, psrVars, calls, store, line_read>>
    /\ \E q \in Queries :
         /\ query_words' = q
         /\ company_name' = extract_company_name(q)
         /\ api_data' = handle_api_query(extract_company_name(q))
         /\ formatted_response' = format_api_response(handle_api_query(extract_company_name(q)))
    /\ UNCHANGED <<query_type, route_resp, sql_query, response, validation, results, err>>

\* process_query, lines 78-80: the general completion call
GeneralLLM ==
    /\ pc = "general_llm"
    /\ UNCHANGED <<apiVars, cursor, psrVars, calls, store, line_read>>
    /\ UNCHANGED <<query_type, route_resp, sql_query, response, validation, results>>
    /\ \/ Raise("CompletionError", Append(trace, "general_call_failed"))
       \/ /\ pc' = "read"
          /\ err' = "none"
          /\ trace' = Append(trace, "general_response")

\* chat, lines 117-120: print the error and continue with the next read
HandleException ==
    /\ pc = "except"
    /\ UNCHANGED <<apiVars, cursor, psrVars, calls, store, line_read>>
    /\ pc' = "read"
    /\ trace' = Append(trace, "error_print")
    /\ UNCHANGED <<query_type, route_resp, sql_query, response, validation, results, err>>

Next ==
    \/ ReadInput
    \/ RouteQuery
    \/ ProcessQuery
    \/ GenerateSql
    \/ ValidateSql
    \/ DisplayValidation
    \/ Confirm
    \/ ExecuteSql
    \/ PrintResults
    \/ ApiQuery
    \/ GeneralLLM
    \/ HandleException

Spec == Init /\ [][Next]_vars

\* ---------------------------------------------------------------- the two
\* functions of api_handler applied to every text of Queries
InitApi ==
    /\ pc \in {"normalize_company_name", "extract_company_name"}
    /\ query_type = "NONE"
    /\ route_resp = << >>
    /\ sql_query = NoStatement
    /\ response = << >>
    /\ validation = NoneVal
    /\ results = NoResult
    /\ err = "none"
    /\ trace = << >>
    /\ cursor = NoCursor
    /\ query_words \in Queries
    /\ company_name = << >>
    /\ api_data = NoData
    /\ formatted_response = NoText
    /\ PsrIdle(analysis, preferences, inputs, returned)
    /\ calls = NoCalls
    /\ store = NoDatabase
    /\ line_read = NoLine

NormalizeName ==
    /\ pc = "normalize_company_name"
    /\ pc' = "returned_normalize"
    /\ company_name' = normalize_company_name(query_words)
    /\ UNCHANGED <<query_type, route_resp, sql_query, response, validation, results, err,
                   trace, cursor, query_words, api_data, formatted_response, psrVars,
                   calls, store, line_read>>

ExtractName ==
    /\ pc = "extract_company_name"
    /\ pc' = "returned_extract"
    /\ company_name' = extract_company_name(query_words)
    /\ UNCHANGED <<query_type, route_resp, sql_query, response, validation, results, err,
                   trace, cursor, query_words, api_data, formatted_response, psrVars,
                   calls, store, line_read>>

NextApi ==
    \/ NormalizeName
    \/ ExtractName

SpecApi == InitApi /\ [][NextApi]_vars

\* ---------------------------------------------------------------- a call of
\* process_sql_request, which no function of the repository calls
InitPsr ==
    /\ pc = "process_sql_request"
    /\ query_type = "NONE"
    /\ route_resp = << >>
    /\ sql_query = NoStatement
    /\ response = << >>
    /\ validation = NoneVal
    /\ results = NoResult
    /\ err = "none"
    /\ trace = << >>
    /\ cursor = NoCursor
    /\ ApiIdle(query_words, company_name, api_data, formatted_response)
    /\ PsrIdle(analysis, preferences, inputs, returned)
    /\ calls = NoCalls
    /\ store = NoDatabase
    /\ line_read = NoLine

\* an exception leaves process_sql_request
PsrRaise(e, log) ==
    /\ pc' = "psr_raised"
    /\ err' = e
    /\ trace' = Append(log, "raised")

psrFrame == <<query_type, route_resp, results, cursor, apiVars, store, line_read>>

\* line 345: analyze_sql_request, one completion call and json.loads of its text
AnalyzeRequest ==
    /\ pc = "process_sql_request"
    /\ UNCHANGED <<psrFrame, sql_query, validation, preferences, inputs, returned, calls>>
    /\ \/ /\ PsrRaise("CompletionError", Append(trace, "analyze_call_failed"))
          /\ UNCHANGED <<response, analysis>>
       \/ \E r \in AnalysisResponses :
            /\ response' = r
            /\ \E lengths \in ListLengths :
                 LET a == analysis_loads(Strip(r), lengths) IN
                 /\ a.len = lengths \/ (a.kind # "obj" /\ lengths = NoLengths)
                 /\ IF a = AnalysisDecodeError
                    THEN /\ PsrRaise("JSONDecodeError", Append(trace, "analyze"))
                         /\ UNCHANGED analysis
                    ELSE /\ analysis' = a
                         /\ pc' = "psr_preferences"
                         /\ err' = "none"
                         /\ trace' = trace \o <<"analyze", "analysis_returned">>

\* line 348: get_user_preferences
GetPreferences ==
    /\ pc = "psr_preferences"
    /\ UNCHANGED <<psrFrame, sql_query, validation, analysis, returned, calls>>
    /\ response' = << >>
    /\ \E inp \in InputsFor(analysis) :
         LET r == get_user_preferences(analysis, inp) IN
         /\ inputs' = inp
         /\ IF r.raised # "none"
            THEN /\ PsrRaise(r.raised, Append(trace, "preferences"))
                 /\ UNCHANGED preferences
            ELSE /\ preferences' = r.preferences
                 /\ pc' = "psr_generate"
                 /\ err' = "none"
                 /\ trace' = trace \o <<"preferences", "preferences_returned">>

\* generate_improved_sql, lines 208-252: the basic completion call and then the
\* refinement call; the lines typed at the prompts are not read after line 348
GenerateImproved ==
    /\ pc = "psr_generate"
    /\ UNCHANGED <<psrFrame, validation, returned, analysis, preferences>>
    /\ inputs' = NoInputs
    /\ \/ /\ PsrRaise("CompletionError", Append(trace, "generate_call_failed"))
          /\ UNCHANGED <<sql_query, response, calls>>
       \/ /\ PsrRaise("CompletionError",
                      trace \o <<"generate", "improve_call_failed">>)
          /\ \E basic \in Completions : calls' = <<BasicCall(basic)>>
          /\ UNCHANGED <<sql_query, response>>
       \/ /\ \E basic, improved \in Completions :
               LET g == generate_improved_sql(basic, improved, analysis, preferences) IN
               /\ calls' = g.calls
               /\ response' = improved
               /\ sql_query' = g.result
          /\ pc' = "psr_generated"
          /\ err' = "none"
          /\ trace' = trace \o <<"generate", "improve">>

\* line 351: generate_improved_sql returns and its result is bound to sql_query;
\* the prompts are gone with the call, and the analysis and the preferences are
\* not read after this line
ReturnImproved ==
    /\ pc = "psr_generated"
    /\ pc' = "psr_validate"
    /\ UNCHANGED <<psrFrame, sql_query, validation, err, trace, inputs, returned>>
    /\ response' = << >>
    /\ analysis' = NoAnalysis
    /\ preferences' = {}
    /\ calls' = NoCalls

\* line 354: validate_sql_query
PsrValidate ==
    /\ pc = "psr_validate"
    /\ UNCHANGED <<psrFrame, sql_query, err, psrVars, calls>>
    /\ \/ LET v == validate_sql_query(TRUE, << >>) IN
          /\ response' = << >>
          /\ validation' = v.val
          /\ trace' = (trace \o <<"validate_call_failed">>) \o v.printed
       \/ \E r \in JsonResponses :
            LET v == validate_sql_query(FALSE, r) IN
            /\ response' = r
            /\ validation' = v.val
            /\ trace' = (trace \o <<"validate">>) \o v.printed
    /\ pc' = "psr_display"

\* lines 355-358: display_sql_validation and the printing of the statement
PsrDisplay ==
    /\ pc = "psr_display"
    /\ response' = << >>
    /\ UNCHANGED <<psrFrame, sql_query, validation, psrVars, calls>>
    /\ LET shown == display_sql_validation(validation) IN
       IF shown = <<"raise">>
       THEN PsrRaise("AttributeError", Append(trace, "display_raised"))
       ELSE /\ trace' = (trace \o shown) \o <<"statement_printed">>
            /\ err' = "none"
            /\ pc' = "psr_prompt"

\* lines 360-378: the final prompt, of three choices when the validation lists
\* enhancements and of y/n otherwise, and the return
FinalPrompt ==
    /\ pc = "psr_prompt"
    /\ pc' = "psr_returned"
    /\ UNCHANGED <<psrFrame, sql_query, response, validation, err, analysis, preferences, calls>>
    /\ \E final \in FinalTexts \cup ConfirmAnswers, modified \in ModifiedTexts :
         LET r == process_sql_request(validation, sql_query, final, modified) IN
         /\ NeedsConfirm(validation) => final \in FinalTexts
         /\ ~NeedsConfirm(validation) => final \in ConfirmAnswers
         /\ (NeedsConfirm(validation) /\ final = <<"2">>) \/ modified = << >>
         /\ inputs' = [NoInputs EXCEPT !.final = final, !.modified = modified]
         /\ returned' = r.returned
         /\ trace' = (trace \o <<"confirm">>) \o r.printed

NextPsr ==
    \/ AnalyzeRequest
    \/ GetPreferences
    \/ GenerateImproved
    \/ ReturnImproved
    \/ PsrValidate
    \/ PsrDisplay
    \/ FinalPrompt

SpecPsr == InitPsr /\ [][NextPsr]_vars

TypeOK ==
    /\ pc \in {"read", "route", "dispatch", "handle_sql_query", "handle_api_query",
               "general_llm", "validate", "display", "confirm", "execute", "print",
               "except", "exited", "crashed"}
    /\ company_name \in SeqsUpTo({"Apple Inc.", "Microsoft Corp", "NONE"} \cup QueryWords, 1)
    /\ query_type \in {"NONE", "SQL", "API", "GENERAL"}
    /\ sql_query \in Statements \cup {NoStatement}

\* ---------------------------------------------------------------- properties
Handlers == {"handle_sql_query", "handle_api_query", "general_llm"}
HandlerPositions == {i \in DOMAIN trace : trace[i] \in Handlers}
InTrace(x) == \E i \in DOMAIN trace : trace[i] = x
LastOfTrace == IF trace = << >> THEN "" ELSE trace[Len(trace)]
Spaces(k) == [i \in 1..k |-> " "]

\* C1: in a turn in which route_query returned SQL, API or GENERAL, exactly one
\* handler is started by process_query, and it is the handler of that decision;
\* no turn starts two handlers, and once process_query has run one is started.
C1_ExactlyOneHandler ==
    /\ Cardinality(HandlerPositions) <= 1
    /\ \A i \in HandlerPositions :
         \/ query_type = "SQL" /\ trace[i] = "handle_sql_query"
         \/ query_type = "API" /\ trace[i] = "handle_api_query"
         \/ query_type = "GENERAL" /\ trace[i] = "general_llm"
    /\ (InTrace("route_chosen") /\ pc # "dispatch") => Cardinality(HandlerPositions) = 1
    /\ HandlerPositions # {} => InTrace("route_chosen")

\* a finished turn routed to API in which the API handler has answered
C1_Witness ==
    /\ pc = "read"
    /\ query_type = "API"
    /\ InTrace("route_chosen")
    /\ LastOfTrace = "api_response"

\* the state right after route_query returned or raised on a response
AfterClassify ==
    \/ pc = "dispatch"
    \/ pc = "except" /\ err = "ValueError"

\* C2: route_query accepts a response only if it is one of the tokens SQL, API,
\* GENERAL surrounded by whitespace only, and then returns that token; on every
\* other response it raises, no route is chosen and no handler runs in the turn.
C2_StrictTokens ==
    /\ AfterClassify =>
         IF \E t \in {"SQL", "API", "GENERAL"} :
              \E i, j \in 0..Len(route_resp) : route_resp = (Spaces(i) \o <<t>>) \o Spaces(j)
         THEN /\ pc = "dispatch"
              /\ \E i, j \in 0..Len(route_resp) :
                   route_resp = (Spaces(i) \o <<query_type>>) \o Spaces(j)
         ELSE /\ pc = "except"
              /\ query_type = "NONE"
    /\ (err = "ValueError") =>
         /\ query_type = "NONE"
         /\ HandlerPositions = {}
         /\ ~InTrace("route_chosen")
         /\ pc \in {"except", "read"}

\* a turn that ended with the error printed because the response was in the wrong case
C2_Witness ==
    /\ pc = "read"
    /\ err = "ValueError"
    /\ route_resp = <<" ", "sql">>
    /\ LastOfTrace = "error_print"

\* C3: an exception raised in a turn is the last step of the turn but for the
\* printing of the error, after which the loop is back at reading the next
\* query; the process is never ended by the exception.
C3_ErrorEndsTurnOnly ==
    /\ pc # "crashed"
    /\ (err # "none") <=> InTrace("raised")
    /\ \A i \in DOMAIN trace :
         trace[i] = "raised" =>
           \/ i = Len(trace) /\ pc = "except"
           \/ i + 1 = Len(trace) /\ trace[i + 1] = "error_print" /\ pc = "read"
    /\ pc = "except" => LastOfTrace = "raised"

\* a turn routed to SQL whose generation call failed: error printed, loop reading again
C3_Witness ==
    /\ pc = "read"
    /\ err = "CompletionError"
    /\ InTrace("handle_sql_query")
    /\ LastOfTrace = "error_print"

\* the steps of the SQL flow in the order claimed for them
Rank(x) ==
    IF x = "analyze" THEN 1
    ELSE IF x = "preferences" THEN 2
    ELSE IF x = "generate" THEN 3
    ELSE IF x \in {"validate", "validate_call_failed"} THEN 4
    ELSE IF x = "confirm" THEN 5
    ELSE IF x = "execute" THEN 6
    ELSE IF x = "print_results" THEN 7
    ELSE 0

Validated == InTrace("validate") \/ InTrace("validate_call_failed")

\* the steps of the trace that are steps of the SQL flow are in strictly increasing order
StepsInOrder ==
    \A i, j \in DOMAIN trace :
      (i < j /\ Rank(trace[i]) > 0 /\ Rank(trace[j]) > 0) => Rank(trace[i]) < Rank(trace[j])

C5_CancelledNeverExecutes ==
    /\ InTrace("cancel_notice") =>
         /\ pc = "read"
         /\ LastOfTrace = "cancel_notice"
         /\ ~InTrace("execute")
         /\ ~InTrace("print_results")
         /\ results = NoResult
         /\ ~InTrace("raised")
         /\ err = "none"
    /\ (InTrace("confirm") /\ ~InTrace("proceed")) => InTrace("cancel_notice")

\* a SQL turn with enhancements that the user declined
C5_Witness ==
    /\ pc = "read"
    /\ sql_query = <<"SELECT">>
    /\ validation = ObjVal(1, TRUE)
    /\ LastOfTrace = "cancel_notice"

\* the validation handed to the flow is absent or a record
AbsentOrRecord == validation.kind \in {"none", "obj"}
ListsEnhancements == validation.kind = "obj" /\ validation.enh
PastDisplay == Validated /\ pc # "display"

BraceExtract ==
    {SubSeq(response, p[1], p[2]) :
       p \in {q \in (DOMAIN response) \X (DOMAIN response) :
                /\ q[1] < q[2]
                /\ response[q[1]] = "{" /\ \A k \in 1..(q[1] - 1) : response[k] # "{"
                /\ response[q[2]] = "}" /\ \A k \in (q[2] + 1)..Len(response) : response[k] # "}"
                /\ json_loads(SubSeq(response, q[1], q[2])) # DecodeError}}

\* C7: validate_sql_query returns the value of the whole response when the
\* response is JSON; otherwise the value of the text from the first "{" to the
\* last "}" when that text is JSON; otherwise absent; and it never raises.
C7_ThreeTiers ==
    /\ (pc = "display" /\ InTrace("validate")) =>
         /\ err = "none"
         /\ IF json_loads(response) # DecodeError
            THEN validation = json_loads(response)
            ELSE IF BraceExtract # {}
                 THEN \A t \in BraceExtract : validation = json_loads(t)
                 ELSE validation = NoneVal
    /\ \A i \in DOMAIN trace :
         (trace[i] \in {"validate", "warn_parse"} /\ i < Len(trace)) =>
           trace[i + 1] # "raised"

\* an object followed by prose and a further closing brace: not salvaged
C7_Witness ==
    /\ pc = "display"
    /\ response = <<"{", "}", "w", "}">>
    /\ validation = NoneVal
    /\ LastOfTrace = "warn_parse"

\* C8 as claimed: whenever validate_sql_query got a response from which neither
\* tier obtains a validation, a warning is printed before absent is returned.
C8_AbsentIsWarned ==
    (/\ pc = "display"
     /\ InTrace("validate")
     /\ json_loads(response) = DecodeError
     /\ validation = NoneVal)
    => (InTrace("warn_parse") \/ InTrace("warn_validation_error"))

\* C9 as claimed: the validation handed to the flow is absent or a record, and
\* the turn does not fail in the display of the validation.
C9_RecordOrAbsent ==
    /\ Validated => AbsentOrRecord
    /\ err # "AttributeError"

CallFailures ==
    {"classify_call_failed", "generate_call_failed", "validate_call_failed",
     "general_call_failed"}

\* C10 as claimed: after a failed completion call, whichever step issued it,
\* nothing more happens in the turn than the raising and the printing of the
\* error; in particular nothing is executed.
C10_CallFailureIsFatal ==
    \A i \in DOMAIN trace :
      trace[i] \in CallFailures =>
        /\ \A j \in (i + 1)..Len(trace) : trace[j] \in {"raised", "error_print"}
        /\ i < Len(trace)
        /\ pc \in {"except", "read"}

\* C10 as amended: a failed classification, generation or general-answer call
\* is fatal for the turn; a failed validation call is caught in
\* validate_sql_query, which prints a warning and returns absent, and the turn
\* goes on without a prompt to the execution of the statement.
C10_FatalExceptValidation ==
    \A i \in DOMAIN trace :
      /\ trace[i] \in (CallFailures \ {"validate_call_failed"}) =>
           /\ \A j \in (i + 1)..Len(trace) : trace[j] \in {"raised", "error_print"}
           /\ i < Len(trace)
           /\ pc \in {"except", "read"}
           /\ err = "CompletionError"
      /\ trace[i] = "validate_call_failed" =>
           /\ i < Len(trace)
           /\ trace[i + 1] = "warn_validation_error"
           /\ validation = NoneVal
           /\ ~InTrace("confirm")
           /\ pc \in {"display", "execute"} \/ InTrace("execute")
           /\ i + 1 < Len(trace) => trace[i + 2] = "execute"

\* a turn whose validation call failed and whose statement was executed all the same
C10_Witness ==
    /\ pc = "print"
    /\ InTrace("validate_call_failed")
    /\ InTrace("execute")
    /\ results.kind = "table"

\* ---------------------------------------------------------------- api_handler properties
\* the known companies a text names, by their place in the fixed list
Named(text) ==
    {k \in 1..5 :
       \E i \in DOMAIN text :
         \/ k = 1 /\ text[i] \in {"apple", "Apple"}
         \/ k = 2 /\ text[i] \in {"microsoft", "Microsoft"}
         \/ k = 3 /\ text[i] = "google"
         \/ k = 4 /\ text[i] = "amazon"
         \/ k = 5 /\ text[i] = "tesla"}

\* what the code answers for the k-th name of the fixed list
AnswerFor(k) ==
    IF k = 1 THEN <<"Apple Inc.">>
    ELSE IF k = 2 THEN <<"Microsoft Corp">>
    ELSE IF k = 3 THEN <<"google">>
    ELSE IF k = 4 THEN <<"amazon">>
    ELSE <<"tesla">>

RawNames == {<<"apple">>, <<"microsoft">>, <<"google">>, <<"amazon">>, <<"tesla">>}

ApiAnswered == LastOfTrace = "api_response"

\* C16: a query naming no known company gives the sentinel "NONE", the lookup of
\* all companies and the summary template; a query naming Apple gives
\* "Apple Inc.", the lookup of one record and the single-company text with its
\* title and its four sections; the lookup is by name exactly when a name was found.
C16_LookupFollowsExtraction ==
    ApiAnswered =>
      /\ Named(query_words) = {} =>
           /\ company_name = <<"NONE">>
           /\ api_data.shape = "list"
           /\ api_data.records = 2
           /\ formatted_response.template = "summary"
      /\ 1 \in Named(query_words) =>
           /\ company_name = <<"Apple Inc.">>
           /\ api_data.shape = "dict"
           /\ api_data.company_name = <<"Apple Inc.">>
           /\ formatted_response.title = <<"Financial Data for", "Apple Inc.", ":">>
           /\ formatted_response.sections =
                <<"Financial Metrics:", "Stock Data:", "Historical Performance:",
                  "Last Updated:">>
      /\ (company_name = <<"NONE">>) <=> (api_data.shape = "list")

\* the turn of a query about the price of Apple
C16_Witness ==
    /\ pc = "read"
    /\ ApiAnswered
    /\ query_words = <<"Apple", "price">>
    /\ formatted_response.template = "single"

HasBoth(text) ==
    /\ \E i \in DOMAIN text : text[i] \in {"msft", "MSFT"}
    /\ \E i \in DOMAIN text : text[i] \in {"microsoft", "Microsoft"}

\* C17 as claimed: every text that contains both "msft" and "microsoft", in any
\* order and case, is normalized to "Microsoft Corp".
C17_BothGiveMicrosoft ==
    (pc = "returned_normalize" /\ HasBoth(query_words)) => company_name = <<"Microsoft Corp">>

\* C17 as amended: every text that contains both "msft" and "microsoft", in any
\* order and case, and does not contain "apple", is normalized to "Microsoft
\* Corp"; a text that contains "apple" as well is normalized to "Apple Inc.".
C17_BothWithoutAppleGiveMicrosoft ==
    (pc = "returned_normalize" /\ HasBoth(query_words)) =>
      IF 1 \in Named(query_words)
      THEN company_name = <<"Apple Inc.">>
      ELSE company_name = <<"Microsoft Corp">>

\* both names in capitals, the ticker first
C17_Witness ==
    /\ pc = "returned_normalize"
    /\ query_words = <<"MSFT", "Microsoft">>
    /\ company_name = <<"Microsoft Corp">>

\* C19: extract_company_name answers for the named company that comes first in
\* the fixed list, and normalize_company_name with the value of the first
\* mapping entry whose key is in the text (apple before microsoft), wherever
\* the names are in the text.
C19_FirstMatchWins ==
    /\ pc = "returned_extract" =>
         IF Named(query_words) = {}
         THEN company_name = <<"NONE">>
         ELSE \A k \in Named(query_words) :
                (\A j \in Named(query_words) : k <= j) => company_name = AnswerFor(k)
    /\ pc = "returned_normalize" =>
         /\ 1 \in Named(query_words) => company_name = <<"Apple Inc.">>
         /\ (2 \in Named(query_words) /\ 1 \notin Named(query_words)) =>
              company_name = <<"Microsoft Corp">>

\* microsoft is named before apple in the query, apple comes first in the list
C19_Witness ==
    /\ pc = "returned_extract"
    /\ query_words = <<"microsoft", "tesla", "Apple">>
    /\ company_name = <<"Apple Inc.">>

\* C20 as claimed: for a query that names a known company the identity handed
\* to the source is never the lower-case name that was matched; for any other
\* query it is the sentinel.
C20_NeverRawName ==
    ApiAnswered =>
      IF Named(query_words) = {}
      THEN company_name = <<"NONE">>
      ELSE /\ company_name \notin RawNames
           /\ api_data.company_name \notin RawNames

\* ---------------------------------------------------------------- execute_sql_query properties
\* str.split("\n"): the lines of a text
RECURSIVE Lines(_)
Lines(text) ==
    IF \A i \in DOMAIN text : text[i] # "\n" THEN <<text>>
    ELSE LET k == CHOOSE i \in DOMAIN text :
                    text[i] = "\n" /\ \A j \in 1..(i - 1) : text[j] # "\n"
         IN  <<SubSeq(text, 1, k - 1)>> \o Lines(SubSeq(text, k + 1, Len(text)))

\* execute_sql_query has returned a text
Executed == InTrace("execute") /\ results # NoResult

\* the lines that follow the header line and its line of dashes, without the
\* empty line after the last line break
DataLines ==
    LET all == Lines(results.text) IN SubSeq(all, 5, Len(all) - 1)

\* C11 as claimed: zero rows give the text "No results found."; n >= 1 rows
\* give a table whose header line is followed (after the line of dashes) by
\* exactly n data lines, the i-th being the values of the i-th row; a store
\* error gives a text that begins with the error indicator and holds no row;
\* the three texts differ in how they begin.
C11_ThreeOutcomes ==
    Executed =>
      /\ (cursor.kind = "rows" /\ cursor.n = 0) => results.text = <<"No results found.">>
      /\ (cursor.kind = "rows" /\ cursor.n >= 1) =>
           /\ Lines(results.text)[1] = << >>
           /\ Lines(results.text)[2] = <<"Results:">>
           /\ Lines(results.text)[3] = HeaderOf(cursor.columns)
           /\ Lines(results.text)[4] = <<"---">>
           /\ Len(DataLines) = cursor.n
           /\ \A i \in 1..cursor.n : DataLines[i] = Join(cursor.rows[i], "|")
      /\ cursor.kind = "sqlite3.Error" =>
           /\ results.text[1] = "Error executing SQL query:"
           /\ Len(Lines(results.text)) = 1
      /\ results.text[1] \in {"No results found.", "\n", "Error executing SQL query:"}
      /\ (results.text[1] = "No results found.") <=> (cursor.kind = "rows" /\ cursor.n = 0)
      /\ (results.text[1] = "\n") <=> (cursor.kind = "rows" /\ cursor.n >= 1)

\* C12 as claimed: a SQL turn that has reached the execution goes on to the
\* printing of the text that execute_sql_query returned; the execution raises
\* nothing.
C12_ExecutedIsPrinted ==
    InTrace("execute") =>
      /\ pc = "print" \/ InTrace("print_results")
      /\ results # NoResult
      /\ ~InTrace("raised")


\* ---------------------------------------------------------------- process_sql_request properties
ExpectedStructure(a) == a.kind = "obj" /\ a.has = FourFields

\* get_user_preferences has just raised
PreferencesRaised ==
    /\ pc = "psr_raised"
    /\ Len(trace) >= 2
    /\ trace[Len(trace) - 1] = "preferences"

\* C13: given an analysis with the four list fields, get_user_preferences
\* never raises, whatever is typed at its prompts.
C13_NeverRaises == ExpectedStructure(analysis) => ~PreferencesRaised

\* the number a typed choice is, surrounding blanks aside; -1 if it is none
Number(text) ==
    CASE text = <<"0">> -> 0
      [] text = <<"1">> -> 1
      [] text = <<" ", "1", " ">> -> 1
      [] text = <<"2">> -> 2
      [] text = <<"3">> -> 3
      [] text = <<"1", "2">> -> 12
      [] OTHER -> -1

NonBlank(text) == \E i \in DOMAIN text : text[i] # " "
WithoutBlanks(text) == SelectSeq(text, LAMBDA t : t # " ")
YesResponses == {<<"y">>, <<"Y">>}
KeysIn(p, key) == {e \in p : e.key = key}

\* C14: the preferences get_user_preferences returns hold answer_i exactly for
\* the questions i answered with a non-blank line, and its value is that answer;
\* selected_variation exactly when the choice typed is a number k between 1 and
\* the number of variations, and its value is k; filter_i, which is true,
\* exactly for the filters i answered with y; and no other entry.
C14_OnlyAnsweredPrompts ==
    (pc = "psr_generate") =>
      LET n == analysis.len IN
      /\ \A i \in 1..n.clarifying_questions :
           IF NonBlank(inputs.answers[i])
           THEN \E e \in preferences :
                  /\ e.key = "answer" /\ e.i = i
                  /\ e.text = WithoutBlanks(inputs.answers[i])
           ELSE ~\E e \in preferences : e.key = "answer" /\ e.i = i
      /\ IF n.query_variations > 0 /\ Number(inputs.choice) \in 1..n.query_variations
         THEN \E e \in preferences :
                e.key = "selected_variation" /\ e.num = Number(inputs.choice)
         ELSE KeysIn(preferences, "selected_variation") = {}
      /\ \A i \in 1..n.suggested_filters :
           (inputs.applies[i] \in YesResponses) <=>
             (\E e \in preferences : e.key = "filter" /\ e.i = i /\ e.num = 1)
      /\ \A e \in preferences :
           \/ e.key = "answer" /\ e.i \in 1..n.clarifying_questions
           \/ e.key = "selected_variation"
           \/ e.key = "filter" /\ e.i \in 1..n.suggested_filters
      /\ Cardinality(KeysIn(preferences, "selected_variation")) <= 1
      /\ \A e, f \in preferences : (e.key = f.key /\ e.i = f.i) => e = f

\* preferences returned with the second variation selected, the second question
\* answered and the first skipped, one filter applied and one declined
C14_Witness ==
    /\ pc = "psr_generate"
    /\ Cardinality(preferences) = 3
    /\ \E e \in preferences : e.key = "selected_variation" /\ e.num = 2
    /\ \E e \in preferences : e.key = "answer" /\ e.i = 2 /\ e.text = <<"a">>
    /\ \E e \in preferences : e.key = "filter" /\ e.i = 1
    /\ analysis.len.clarifying_questions = 2
    /\ analysis.len.suggested_filters = 2
    /\ inputs.answers[1] = <<" ">>
    /\ inputs.applies[2] = <<" ", "y">>

\* C15: analyze_sql_request returns only a JSON object with the four list
\* fields, the all-empty one included; on every other response it raises, so
\* get_user_preferences is never started on anything else.
C15_OnlyExpectedStructure ==
    /\ (pc = "psr_preferences") => ExpectedStructure(analysis)
    /\ (InTrace("preferences") /\ analysis # NoAnalysis) => ExpectedStructure(analysis)

\* C18: at the final prompt of process_sql_request, of three choices or of y/n,
\* a line that is none of the answers offered is a refusal: nothing is returned
\* for execution, and no exception is raised.
C18_UnrecognizedIsNegative ==
    (pc = "psr_returned") =>
      LET offered == IF NeedsConfirm(validation)
                     THEN {<<"1">>, <<"2">>, <<"3">>}
                     ELSE {<<"y">>, <<"Y">>, <<"n">>}
      IN  inputs.final \notin offered => returned = NoneReturned


\* ---------------------------------------------------------------- generation properties
\* x is the text c without its leading and trailing blanks
IsStripOf(x, c) ==
    /\ x = << >> \/ (x[1] # " " /\ x[Len(x)] # " ")
    /\ \E i, j \in 0..Len(c) : c = (Spaces(i) \o x) \o Spaces(j)

CountOf(x) == Cardinality({i \in DOMAIN trace : trace[i] = x})

\* C21: when generate_improved_sql returns it has made exactly two completion
\* calls, the basic generation and then the refinement; the refinement prompt
\* embeds the stripped answer of the first call, the serialized analysis, the
\* serialized preferences and the store metadata; and the result is the answer
\* of the refinement call without its leading and trailing blanks.
C21_TwoCallsThenStripped ==
    (pc = "psr_generated") =>
      /\ Len(calls) = 2
      /\ calls[1].name = "generate_sql_query"
      /\ calls[2].name = "improvement"
      /\ CountOf("generate") = 1 /\ CountOf("improve") = 1
      /\ SubSeq(trace, Len(trace) - 1, Len(trace)) = <<"generate", "improve">>
      /\ IsStripOf(calls[2].sql_query, calls[1].completion)
      /\ analysis_loads(calls[2].analysis.text, calls[2].analysis.len) = analysis
      /\ {calls[2].preferences[k] : k \in DOMAIN calls[2].preferences} = preferences
      /\ Len(calls[2].preferences) = Cardinality(preferences)
      /\ calls[2].llm_data = llm_data
      /\ IsStripOf(sql_query, calls[2].completion)

\* a refinement of a fenced baseline for an analysis with answered prompts, whose
\* answer has blanks around the statement
C21_Witness ==
    /\ pc = "psr_generated"
    /\ Len(calls) = 2
    /\ calls[1].completion = <<" ", "<fence>", "SELECT", "<fence>">>
    /\ calls[2].sql_query = <<"<fence>", "SELECT", "<fence>">>
    /\ calls[2].completion = <<" ", "SELECT", " ">>
    /\ sql_query = <<"SELECT">>
    /\ Cardinality(preferences) = 2


HasFence(text) == \E i \in DOMAIN text : text[i] = "<fence>"

\* C22: the statement generate_sql_query returns is the completion without its
\* leading and trailing blanks, so the fences of a fenced completion are part
\* of it; the statement is not changed on its way to the store; the store rejects
\* a fenced statement, execute_sql_query returns the error text for it, and the
\* turn prints that text and goes on to the next read without an exception.
C22_FencesReachTheStore ==
    [][/\ (pc = "handle_sql_query" /\ pc' = "validate") =>
            /\ IsStripOf(sql_query', response')
            /\ HasFence(response') => HasFence(sql_query')
       /\ (pc \in {"validate", "display", "confirm", "execute", "print"}) =>
            sql_query' = sql_query
       /\ (pc = "execute" /\ HasFence(sql_query)) =>
            /\ cursor'.kind = "sqlite3.Error"
            /\ results'.kind = "error_text"
            /\ results'.text[1] = "Error executing SQL query:"
            /\ err' = "none"
            /\ pc' = "print"
       /\ (pc = "print" /\ HasFence(sql_query)) =>
            /\ pc' = "read"
            /\ results' = results
            /\ trace' = Append(trace, "print_results")]_vars

\* a turn whose completion was fenced and padded, after the error text was printed
C22_Witness ==
    /\ pc = "read"
    /\ sql_query = <<"<fence>", "SELECT", "<fence>">>
    /\ cursor.kind = "sqlite3.Error"
    /\ results.kind = "error_text"
    /\ LastOfTrace = "print_results"
    /\ ~InTrace("raised")


\* ---------------------------------------------------------------- store properties
\* C23 as claimed: the execution of a statement does not create, drop or refill
\* the tables, so the execution of a read-only statement leaves the store as it
\* was, and the next turn that runs the statement reads the same rows.
C23_ReadOnlyLeavesStore ==
    [][(pc = "execute" /\ StatementKind(sql_query) = "select") => store' = store]_vars


\* ---------------------------------------------------------------- chat loop properties
\* the word exit, in either spelling, with nothing but blanks around it
ExitLine(line) == WithoutBlanks(line) \in {<<"exit">>, <<"Exit">>} /\ Len(Strip(line)) = 1

\* C24: the loop ends exactly when the line read is exit, in any case and with
\* blanks around it, and no step follows; every exception of a turn, the end of
\* input at the read included, takes the loop to its except clause, from which
\* it goes on to the next read; no exception ends the process.
C24_StopsOnlyOnExit ==
    [][/\ pc # "exited"
       /\ (pc' = "exited") => (pc = "read" /\ err' = "none" /\ ExitLine(line_read'))
       /\ (pc = "read" /\ err' = "none" /\ ExitLine(line_read')) => pc' = "exited"
       /\ (pc = "read" /\ err' # "none") =>
            (err' = "EOFError" /\ pc' = "except" /\ line_read' = NoLine)
       /\ (trace' # trace /\ LastOfTrace' = "raised") => (pc' = "except" /\ err' # "none")
       /\ (pc' = "except") => (LastOfTrace' = "raised" /\ pc # "except")
       /\ (pc = "except") => (pc' = "read" /\ trace' = Append(trace, "error_print"))
       /\ pc' # "crashed"]_vars

\* the loop has ended on the line " Exit"
C24_Witness ==
    /\ pc = "exited"
    /\ line_read = <<" ", "Exit">>
    /\ trace = <<"goodbye">>
    /\ err = "none"

============================================================================
